---- MODULE Spec2Model ----
(***************************************************************************)
(* A model of UnleashClient (src/UnleashClient/__init__.py): the client's  *)
(* life cycle (construction, initialize_client, destroy), the periodic     *)
(* jobs it hands to the background scheduler, and is_enabled with the      *)
(* strategy evaluation it delegates to.                                    *)
(*                                                                         *)
(* Code of the package that the client calls but that is not part of the   *)
(* sources at hand (fetch_and_load_features, Feature.is_enabled,           *)
(* normalized_hash, the Default strategy) is modelled from spec.md.        *)
(***************************************************************************)
EXTENDS Naturals, Integers, Sequences, FiniteSets, TLC

VARIABLES
    pc,                   \* position of the thread that drives the life cycle
    disable_metrics,      \* self.unleash_disable_metrics
    disable_registration, \* self.unleash_disable_registration
    custom_strategies,    \* the custom_strategies argument of __init__
    strategy_mapping,     \* self.strategy_mapping
    features,             \* self.features
    is_initialized,       \* self.is_initialized
    cache,                \* the FileCache of this instance id (durable)
    scheduler,            \* state of self.scheduler: "stopped" or "running"
    jobs,                 \* the jobs the scheduler holds
    fl_job,               \* self.fl_job: a job id, or None
    metric_job,           \* self.metric_job: a job id, or None
    nextJobId,            \* the id the next add_job hands out
    inflight,             \* the server's answer a running fetch job holds
    lastFetched,          \* payload of this client's last successful fetch
    lastRun,              \* kind and outcome of the last fetch run
    lastCall,             \* the is_enabled call that has just returned, if any
    opLog,                \* the calls the last life-cycle operation has made
    lastError,            \* the exception the last life-cycle operation raised
    registrations,        \* register_client calls of the current client
    startCount,           \* scheduler.start() calls that succeeded
    generation,           \* how many clients were constructed before this one
    previousEnd,          \* how the previous client ended
    lastPersisted,        \* the last feature payload written to the cache
    destroyed,            \* destroy has run to its end on this client
    initCalls,            \* initialize_client calls on this client
    destroyCalled,        \* destroy has been called on this client
    default_context,      \* the dict that is the default of is_enabled's context
    clients,              \* two clients of one process: their own state
    calls,                \* the is_enabled call each of the two has under way
    userIds,              \* the ids a userWithId strategy is built from
    userId,               \* the userId of the context it is called with
    userWithIdResult      \* what the strategy has answered, once called

\* the client whose life cycle is followed
lifecycle == <<pc, disable_metrics, disable_registration, custom_strategies,
               strategy_mapping, features, is_initialized, cache, scheduler,
               jobs, fl_job, metric_job, nextJobId, inflight, lastFetched,
               lastRun, lastCall, opLog, lastError, registrations, startCount,
               generation, previousEnd, lastPersisted, destroyed, initCalls,
               destroyCalled>>

\* two clients side by side
sideBySide == <<default_context, clients, calls>>

\* a strategy on its own
strategyAlone == <<userIds, userId, userWithIdResult>>

vars == <<lifecycle, sideBySide, strategyAlone>>

-----------------------------------------------------------------------------
(* Bounds *)

\* clients constructed after the first one (simulated restarts)
MaxRestarts == 1

\* initialize_client calls on one client
MaxInitCalls == 2

\* characters of a user id
MaxIdLen == 2

\* user ids of a userWithId strategy
MaxIds == 2

-----------------------------------------------------------------------------
(* Values *)

None == "None"

Empty == << >>

\* Python's dict.get-free membership test: key in mapping
Has(mapping, key) == key \in DOMAIN mapping

\* {**a, **b}: the keys of both, b's value where both have the key
DictMerge(a, b) == b @@ a

\* the result of a call: a returned boolean, or an exception
Return(v) == [raised |-> FALSE, value |-> v]

Raise == [raised |-> TRUE, value |-> FALSE]

-----------------------------------------------------------------------------
(* Configuration of the client under study *)

unleash_app_name == "pytest"

unleash_environment == "default"

\* self.unleash_static_context
unleash_static_context ==
    [appName |-> unleash_app_name, environment |-> unleash_environment]

\* the built-in strategies, name -> class
default_strategy_mapping ==
    [applicationHostname     |-> "ApplicationHostname",
     default                 |-> "Default",
     gradualRolloutRandom    |-> "GradualRolloutRandom",
     gradualRolloutSessionId |-> "GradualRolloutSessionId",
     gradualRolloutUserId    |-> "GradualRolloutUserId",
     remoteAddress           |-> "RemoteAddress",
     userWithId              |-> "UserWithId"]

\* the arguments the clients under study are constructed with: every value
\* of each argument, and every pair of values of two arguments
Configurations ==
    { [disable_metrics |-> FALSE, disable_registration |-> FALSE,
       custom_strategies |-> [myStrategy |-> "CustomFailing",
                              default |-> "CustomAlwaysFalse"]],
      [disable_metrics |-> TRUE, disable_registration |-> FALSE,
       custom_strategies |-> Empty],
      [disable_metrics |-> FALSE, disable_registration |-> TRUE,
       custom_strategies |-> Empty],
      [disable_metrics |-> TRUE, disable_registration |-> TRUE,
       custom_strategies |-> [myStrategy |-> "CustomFailing",
                              default |-> "CustomAlwaysFalse"]] }

\* self.strategy_mapping = {**custom_strategies, **default_strategy_mapping}
StrategyMappingOf(custom) == DictMerge(custom, default_strategy_mapping)

-----------------------------------------------------------------------------
(* Hash bucketing and strategies *)

\* the characters of the identifiers the model uses, as code points
CodePoints(s) ==
    CASE s = "g1" -> <<103, 49>>
      [] s = "N"  -> <<78>>
      [] s = "v"  -> <<118>>
      [] s = "b"  -> <<98>>
      [] OTHER    -> << >>

\* the sum of the code points; for the identifiers of the model it stays
\* far below the 32 bits of the checksum, so no reduction applies
RECURSIVE Checksum(_)
Checksum(codes) ==
    IF codes = << >> THEN 0
    ELSE Head(codes) + Checksum(Tail(codes))

\* normalizedHash(identifier, groupId): a stable checksum of groupId followed
\* by identifier, reduced modulo 100
normalized_hash(identifier, groupId) ==
    Checksum(CodePoints(groupId) \o CodePoints(identifier)) % 100

\* GradualRolloutSessionId.__call__: a missing parameter or context key
\* raises KeyError
GradualRolloutSessionId(parameters, context) ==
    IF ~Has(parameters, "percentage") THEN Raise
    ELSE IF ~Has(parameters, "groupId") THEN Raise
    ELSE IF ~Has(context, "sessionId") THEN Raise
    ELSE Return(parameters["percentage"]
                  < normalized_hash(context["sessionId"], parameters["groupId"]))

\* the pieces of a string between its commas
RECURSIVE SplitFrom(_, _)
SplitFrom(string, piece) ==
    IF string = << >> THEN <<piece>>
    ELSE IF Head(string) = ","
         THEN <<piece>> \o SplitFrom(Tail(string), << >>)
         ELSE SplitFrom(Tail(string), Append(piece, Head(string)))

\* a variant that loses the piece after the last comma
SplitDroppingLast(string) ==
    LET pieces == SplitFrom(string, << >>)
    IN  IF Len(pieces) > 1 THEN SubSeq(pieces, 1, Len(pieces) - 1) ELSE pieces

\* string.split(',')
Split(string) == SplitFrom(string, << >>)

\* ','.join(ids)
RECURSIVE Join(_)
Join(ids) ==
    IF ids = << >> THEN << >>
    ELSE IF Len(ids) = 1 THEN Head(ids)
    ELSE Head(ids) \o <<",">> \o Join(Tail(ids))

\* UserWithId.__call__: true if context.userId is in the id list of the
\* userIds parameter
UserWithId(parameters, context) ==
    IF ~Has(parameters, "userIds") THEN Raise
    ELSE IF ~Has(context, "userId") THEN Raise
    ELSE LET ids == Split(parameters["userIds"])
         IN  Return(\E i \in DOMAIN ids : ids[i] = context["userId"])

\* a strategy object called with a context
StrategyCall(class, parameters, context) ==
    CASE class = "Default"                 -> Return(TRUE)
      [] class = "GradualRolloutSessionId" -> GradualRolloutSessionId(parameters, context)
      [] class = "UserWithId"              -> UserWithId(parameters, context)
      [] class = "CustomAlwaysFalse"       -> Return(FALSE)
      [] OTHER                             -> Raise

\* OR over the strategies of a feature, in order; a failing strategy fails
\* the evaluation
RECURSIVE AnyStrategy(_, _)
AnyStrategy(strategies, context) ==
    IF strategies = << >> THEN Return(FALSE)
    ELSE LET s == Head(strategies)
             r == StrategyCall(s.class, s.parameters, context)
         IN  IF r.raised THEN Raise
             ELSE IF r.value THEN Return(TRUE)
             ELSE AnyStrategy(Tail(strategies), context)

\* Feature.is_enabled(context, default_value)
FeatureIsEnabled(feature, context, default_value) ==
    IF ~feature.enabled THEN Return(FALSE)
    ELSE IF feature.strategies = << >> THEN Return(TRUE)
    ELSE AnyStrategy(feature.strategies, context)

-----------------------------------------------------------------------------
(* Feature definitions the server can answer with *)

Rollout50 == [name |-> "gradualRolloutSessionId",
              parameters |-> [percentage |-> 50, groupId |-> "g1"]]

RolloutMalformed == [name |-> "gradualRolloutSessionId",
                     parameters |-> [groupId |-> "g1"]]

DefaultStrategy == [name |-> "default", parameters |-> Empty]

CustomStrategy == [name |-> "myStrategy", parameters |-> Empty]

Payloads == {"P1", "P2"}

PayloadDocument(p) ==
    CASE p = "P1" ->
           [alpha |-> [enabled |-> TRUE,  strategies |-> <<DefaultStrategy>>],
            beta  |-> [enabled |-> TRUE,  strategies |-> <<Rollout50>>]]
      [] p = "P2" ->
           [beta  |-> [enabled |-> TRUE,  strategies |-> <<RolloutMalformed>>],
            gamma |-> [enabled |-> FALSE, strategies |-> <<DefaultStrategy>>],
            delta |-> [enabled |-> TRUE,  strategies |-> <<CustomStrategy>>]]

\* a strategy of the document as a strategy object: its class comes from the
\* strategy mapping; a name the mapping lacks gives a strategy that fails
create_strategy(s, mapping) ==
    [class |-> IF Has(mapping, s.name) THEN mapping[s.name] ELSE "Unregistered",
     parameters |-> s.parameters]

\* the FeatureSet parsed from a document
ParseFeatures(p, mapping) ==
    LET doc == PayloadDocument(p)
    IN  [n \in DOMAIN doc |->
           [enabled |-> doc[n].enabled,
            strategies |-> [i \in DOMAIN doc[n].strategies |->
                              create_strategy(doc[n].strategies[i], mapping)]]]

\* every feature set a complete load can leave in the repository
FeatureSets(mapping) == {Empty} \cup {ParseFeatures(p, mapping) : p \in Payloads}

-----------------------------------------------------------------------------
(* is_enabled *)

FeatureNames == {"alpha", "beta", "delta", "nosuch"}

\* the context arguments of the calls
Contexts ==
    { Empty,
      [sessionId |-> "N"],
      [sessionId |-> "v"],
      [sessionId |-> "N", appName |-> "other"] }

\* a variant in which the caller's fields win over the static ones
ContextUpdateCallerWins(context) == DictMerge(unleash_static_context, context)

\* context.update(self.unleash_static_context)
ContextUpdate(context) == DictMerge(context, unleash_static_context)

\* a variant that does not test is_initialized
is_enabled_unguarded(initialized, featureSet, feature_name, context, default_value) ==
    LET r == IF Has(featureSet, feature_name)
             THEN FeatureIsEnabled(featureSet[feature_name], ContextUpdate(context),
                                   default_value)
             ELSE Raise
    IN  IF r.raised THEN Return(default_value) ELSE r

\* a variant without the try/except around the evaluation
is_enabled_uncaught(initialized, featureSet, feature_name, context, default_value) ==
    IF initialized
    THEN IF Has(featureSet, feature_name)
         THEN FeatureIsEnabled(featureSet[feature_name], ContextUpdate(context),
                               default_value)
         ELSE Raise
    ELSE Return(default_value)

\* a variant that answers False for a name the feature set lacks
is_enabled_unknown_false(initialized, featureSet, feature_name, context, default_value) ==
    IF initialized
    THEN IF Has(featureSet, feature_name)
         THEN LET r == FeatureIsEnabled(featureSet[feature_name],
                                        ContextUpdate(context), default_value)
              IN  IF r.raised THEN Return(default_value) ELSE r
         ELSE Return(FALSE)
    ELSE Return(default_value)

\* UnleashClient.is_enabled: the lookup self.features[feature_name] raises
\* KeyError for a name that is no key; every exception of the lookup and of
\* the evaluation is caught and answered with default_value
is_enabled(initialized, featureSet, feature_name, context, default_value) ==
    IF initialized
    THEN LET r == IF Has(featureSet, feature_name)
                  THEN FeatureIsEnabled(featureSet[feature_name],
                                        ContextUpdate(context), default_value)
                  ELSE Raise
         IN  IF r.raised THEN Return(default_value) ELSE r
    ELSE Return(default_value)

\* whether the evaluation behind a call raises
EvaluationRaises(featureSet, feature_name, context, default_value) ==
    IF Has(featureSet, feature_name)
    THEN FeatureIsEnabled(featureSet[feature_name], ContextUpdate(context),
                          default_value).raised
    ELSE TRUE

-----------------------------------------------------------------------------
(* Repository, durable cache and the fetch job's function *)

NoJob == 0

NoRun == [kind |-> None, ok |-> FALSE]

NoCall == [called |-> FALSE, feature_name |-> None, context |-> Empty,
           default_value |-> FALSE, initialized |-> FALSE, seen |-> Empty,
           merged |-> Empty, result |-> Return(FALSE)]

\* a variant that keeps the METRIC_LAST_SENT_TIME an existing cache holds
OpenCacheKeeping(old, gen) ==
    [deleted |-> FALSE,
     features |-> IF old.deleted THEN None ELSE old.features,
     lastSent |-> IF old.deleted
                  THEN [by |-> "construction", generation |-> gen]
                  ELSE old.lastSent]

\* FileCache(instance_id) of a new client, with METRIC_LAST_SENT_TIME set:
\* an existing cache keeps its other entries, a deleted one starts empty
OpenCache(old, gen) ==
    [deleted |-> FALSE,
     features |-> IF old.deleted THEN None ELSE old.features,
     lastSent |-> [by |-> "construction", generation |-> gen]]

\* cache.delete()
DeletedCache == [deleted |-> TRUE, features |-> None,
                 lastSent |-> [by |-> None, generation |-> 0]]

\* a replacement that leaves the old set's other features in place
RepositoryUpdate(old, new) == DictMerge(old, new)

\* repository.replace(newFeatureSet)
RepositoryReplace(old, new) == new

\* a variant that empties the repository when the fetch fails
fetch_and_load_features_clearing(response, featureSet, cacheValue, mapping, synced) ==
    IF response # "fail"
    THEN [features |-> RepositoryReplace(featureSet, ParseFeatures(response, mapping)),
          cache |-> [cacheValue EXCEPT !.features = response]]
    ELSE [features |-> Empty, cache |-> cacheValue]

\* fetch_and_load_features: on success replace the repository and persist
\* the set; on failure leave the repository as it is, except that before
\* the first successful fetch it is seeded from the cache's persisted set
fetch_and_load_features(response, featureSet, cacheValue, mapping, synced) ==
    IF response # "fail"
    THEN [features |-> RepositoryReplace(featureSet, ParseFeatures(response, mapping)),
          cache |-> [cacheValue EXCEPT !.features = response]]
    ELSE IF ~synced /\ cacheValue.features # None
         THEN [features |-> RepositoryReplace(featureSet,
                                ParseFeatures(cacheValue.features, mapping)),
               cache |-> cacheValue]
         ELSE [features |-> featureSet, cache |-> cacheValue]

Responses == Payloads \cup {"fail"}

-----------------------------------------------------------------------------
(* Two clients of one process *)

ClientIds == {"A", "B"}

\* the two clients as constructed: their app names, environments and
\* custom strategies differ, neither passes custom_headers, and both have
\* completed initialize_client
ConstructedClients ==
    [c \in ClientIds |->
       [static_context |->
            IF c = "A" THEN unleash_static_context
            ELSE [appName |-> "other-app", environment |-> "staging"],
        strategy_mapping |->
            IF c = "A" THEN StrategyMappingOf(Empty)
            ELSE StrategyMappingOf([myStrategy |-> "CustomFailing"]),
        custom_headers |-> Empty,
        features |-> Empty,
        is_initialized |-> TRUE]]

\* no call under way
IdleCall == [pc |-> "idle", feature_name |-> None, omitted |-> FALSE,
             context |-> Empty, default_value |-> FALSE,
             evaluated |-> Empty, result |-> Return(FALSE)]

\* the names and contexts of the calls on the two clients
CallNames == {"alpha", "nosuch"}

CallContexts == {Empty, [sessionId |-> "N"]}

\* lines 170-180 of is_enabled, on the context as line 168 has left it
EvaluateMerged(initialized, featureSet, feature_name, merged, default_value) ==
    IF initialized
    THEN LET r == IF Has(featureSet, feature_name)
                  THEN FeatureIsEnabled(featureSet[feature_name], merged,
                                        default_value)
                  ELSE Raise
         IN  IF r.raised THEN Return(default_value) ELSE r
    ELSE Return(default_value)

-----------------------------------------------------------------------------
(* Initial state: a client right after __init__, on a machine without cache *)

Constructed ==
    /\ pc = "idle"
    /\ \E c \in Configurations :
         /\ disable_metrics = c.disable_metrics
         /\ disable_registration = c.disable_registration
         /\ custom_strategies = c.custom_strategies
    /\ strategy_mapping = StrategyMappingOf(custom_strategies)
    /\ features = Empty
    /\ is_initialized = FALSE
    /\ cache = OpenCache(DeletedCache, 0)
    /\ scheduler = "stopped"
    /\ jobs = {}
    /\ fl_job = NoJob
    /\ metric_job = NoJob
    /\ nextJobId = 1
    /\ inflight = None
    /\ lastFetched = None
    /\ lastRun = NoRun
    /\ lastCall = NoCall
    /\ opLog = << >>
    /\ lastError = None
    /\ registrations = 0
    /\ startCount = 0
    /\ generation = 0
    /\ previousEnd = None
    /\ lastPersisted = None
    /\ destroyed = FALSE
    /\ initCalls = 0
    /\ destroyCalled = FALSE
    /\ default_context = Empty
    /\ clients = ConstructedClients
    /\ calls = [c \in ClientIds |-> IdleCall]

\* no strategy called yet
NotCalled == [called |-> FALSE, result |-> Return(FALSE)]

Init ==
    /\ Constructed
    /\ userIds = << >>
    /\ userId = << >>
    /\ userWithIdResult = NotCalled

-----------------------------------------------------------------------------
(* Construction of a new client after the previous one ended *)

config == <<disable_metrics, disable_registration, custom_strategies>>

ghosts == <<lastPersisted>>

\* UnleashClient.__init__ in a new process with the same instance id: the
\* objects of the old process are gone, the cache file is what it left
NewClient ==
    /\ pc = "idle"
    /\ generation < MaxRestarts
    /\ generation' = generation + 1
    /\ previousEnd' = IF destroyed THEN "destroy" ELSE "exit"
    /\ strategy_mapping' = StrategyMappingOf(custom_strategies)
    /\ features' = Empty
    /\ is_initialized' = FALSE
    /\ cache' = OpenCache(cache, generation + 1)
    /\ scheduler' = "stopped"
    /\ jobs' = {}
    /\ fl_job' = NoJob
    /\ metric_job' = NoJob
    /\ inflight' = None
    /\ lastFetched' = None
    /\ lastRun' = NoRun
    /\ lastCall' = NoCall
    /\ opLog' = << >>
    /\ lastError' = None
    /\ registrations' = 0
    /\ startCount' = 0
    /\ destroyed' = FALSE
    /\ initCalls' = 0
    /\ destroyCalled' = FALSE
    /\ nextJobId' = 1
    /\ UNCHANGED <<sideBySide, strategyAlone, pc, config, ghosts>>

-----------------------------------------------------------------------------
(* initialize_client *)

\* the registration call, unless disabled
InitRegister ==
    /\ pc = "idle"
    /\ ~destroyed
    /\ initCalls < MaxInitCalls
    /\ initCalls' = initCalls + 1
    /\ registrations' = IF disable_registration THEN registrations
                        ELSE registrations + 1
    /\ opLog' = IF disable_registration THEN << >> ELSE <<"register_client">>
    /\ lastError' = None
    /\ pc' = "init_fetch"
    /\ lastCall' = NoCall
    /\ UNCHANGED <<sideBySide, strategyAlone, config, ghosts, strategy_mapping, features, is_initialized,
                   cache, scheduler, jobs, fl_job, metric_job, nextJobId,
                   inflight, lastFetched, lastRun, startCount,
                   generation, previousEnd, destroyed, destroyCalled>>

\* fetch_and_load_features(**fl_args), on the caller's thread
InitFetch ==
    /\ pc = "init_fetch"
    /\ \E response \in Responses :
         LET r == fetch_and_load_features(response, features, cache,
                                          strategy_mapping, lastFetched # None)
         IN  /\ features' = r.features
             /\ cache' = r.cache
             /\ lastFetched' = IF response # "fail" THEN response ELSE lastFetched
             /\ lastPersisted' = IF response # "fail" THEN response ELSE lastPersisted
             /\ lastRun' = [kind |-> "initial", ok |-> response # "fail"]
    /\ opLog' = Append(opLog, "fetch_and_load_features")
    /\ pc' = "init_start"
    /\ lastCall' = NoCall
    /\ UNCHANGED <<sideBySide, strategyAlone, config, strategy_mapping, is_initialized, scheduler, jobs,
                   fl_job, metric_job, nextJobId, inflight, lastError,
                   registrations, startCount, generation, previousEnd,
                   destroyed, initCalls, destroyCalled>>

\* a variant that sets is_initialized as soon as the scheduler has started
InitStartSchedulerEarly ==
    /\ pc = "init_start"
    /\ IF scheduler = "running"
       THEN /\ lastError' = "SchedulerAlreadyRunningError"
            /\ pc' = "idle"
            /\ UNCHANGED <<scheduler, startCount, opLog, is_initialized>>
       ELSE /\ scheduler' = "running"
            /\ startCount' = startCount + 1
            /\ opLog' = Append(opLog, "scheduler.start")
            /\ is_initialized' = TRUE
            /\ pc' = "init_add_fl_job"
            /\ UNCHANGED lastError
    /\ lastCall' = NoCall
    /\ UNCHANGED <<sideBySide, strategyAlone, config, ghosts, strategy_mapping, features,
                   cache, jobs, fl_job, metric_job, nextJobId, inflight,
                   lastFetched, lastRun, registrations, generation,
                   previousEnd, destroyed, initCalls, destroyCalled>>

\* self.scheduler.start(): a scheduler that is running raises
\* SchedulerAlreadyRunningError, which ends initialize_client
InitStartScheduler ==
    /\ pc = "init_start"
    /\ IF scheduler = "running"
       THEN /\ lastError' = "SchedulerAlreadyRunningError"
            /\ pc' = "idle"
            /\ UNCHANGED <<scheduler, startCount, opLog>>
       ELSE /\ scheduler' = "running"
            /\ startCount' = startCount + 1
            /\ opLog' = Append(opLog, "scheduler.start")
            /\ pc' = "init_add_fl_job"
            /\ UNCHANGED lastError
    /\ lastCall' = NoCall
    /\ UNCHANGED <<sideBySide, strategyAlone, config, ghosts, strategy_mapping, features, is_initialized,
                   cache, jobs, fl_job, metric_job, nextJobId, inflight,
                   lastFetched, lastRun, registrations, generation,
                   previousEnd, destroyed, initCalls, destroyCalled>>

\* self.fl_job = self.scheduler.add_job(fetch_and_load_features, ...)
InitAddFetchJob ==
    /\ pc = "init_add_fl_job"
    /\ jobs' = jobs \cup {[kind |-> "fetch", id |-> nextJobId]}
    /\ fl_job' = nextJobId
    /\ nextJobId' = nextJobId + 1
    /\ opLog' = Append(opLog, "add_job fetch")
    /\ pc' = "init_add_metric_job"
    /\ lastCall' = NoCall
    /\ UNCHANGED <<sideBySide, strategyAlone, config, ghosts, strategy_mapping, features, is_initialized,
                   cache, scheduler, metric_job, inflight, lastFetched, lastRun,
                   lastError, registrations, startCount, generation,
                   previousEnd, destroyed, initCalls, destroyCalled>>

\* a variant that schedules the metrics job whatever disable_metrics says
InitFinishAlwaysMetrics ==
    /\ pc = "init_add_metric_job"
    /\ jobs' = jobs \cup {[kind |-> "metrics", id |-> nextJobId]}
    /\ metric_job' = nextJobId
    /\ nextJobId' = nextJobId + 1
    /\ opLog' = opLog \o <<"add_job metrics", "is_initialized">>
    /\ is_initialized' = TRUE
    /\ pc' = "idle"
    /\ lastCall' = NoCall
    /\ UNCHANGED <<sideBySide, strategyAlone, config, ghosts, strategy_mapping, features, cache, scheduler,
                   fl_job, inflight, lastFetched, lastRun, lastError,
                   registrations, startCount, generation, previousEnd,
                   destroyed, initCalls, destroyCalled>>

\* the metrics job, unless disabled, and self.is_initialized = True
InitFinish ==
    /\ pc = "init_add_metric_job"
    /\ IF disable_metrics
       THEN /\ opLog' = Append(opLog, "is_initialized")
            /\ UNCHANGED <<jobs, metric_job, nextJobId>>
       ELSE /\ jobs' = jobs \cup {[kind |-> "metrics", id |-> nextJobId]}
            /\ metric_job' = nextJobId
            /\ nextJobId' = nextJobId + 1
            /\ opLog' = opLog \o <<"add_job metrics", "is_initialized">>
    /\ is_initialized' = TRUE
    /\ pc' = "idle"
    /\ lastCall' = NoCall
    /\ UNCHANGED <<sideBySide, strategyAlone, config, ghosts, strategy_mapping, features, cache, scheduler,
                   fl_job, inflight, lastFetched, lastRun, lastError,
                   registrations, startCount, generation, previousEnd,
                   destroyed, initCalls, destroyCalled>>

-----------------------------------------------------------------------------
(* The jobs, on the scheduler's threads *)

\* the interval trigger fires the fetch job: the request goes out and the
\* server's answer, or the failure, is on its way
FetchJobFire ==
    /\ scheduler = "running"
    /\ \E j \in jobs : j.kind = "fetch"
    /\ inflight = None
    /\ \E response \in Responses : inflight' = response
    /\ lastCall' = NoCall
    /\ UNCHANGED <<sideBySide, strategyAlone, pc, config, ghosts, strategy_mapping, features,
                   is_initialized, cache, scheduler, jobs, fl_job, metric_job,
                   nextJobId, lastFetched, lastRun, opLog, lastError,
                   registrations, startCount, generation, previousEnd,
                   destroyed, initCalls, destroyCalled>>

\* a variant whose job is dropped from the scheduler once it has run
FetchJobCompleteOnce ==
    /\ inflight # None
    /\ LET r == fetch_and_load_features(inflight, features, cache,
                                        strategy_mapping, lastFetched # None)
       IN  /\ features' = r.features
           /\ cache' = r.cache
    /\ lastFetched' = IF inflight # "fail" THEN inflight ELSE lastFetched
    /\ lastPersisted' = IF inflight # "fail" THEN inflight ELSE lastPersisted
    /\ lastRun' = [kind |-> "periodic", ok |-> inflight # "fail"]
    /\ inflight' = None
    /\ jobs' = {j \in jobs : j.kind # "fetch"}
    /\ lastCall' = NoCall
    /\ UNCHANGED <<sideBySide, strategyAlone, pc, config, strategy_mapping, is_initialized, scheduler,
                   fl_job, metric_job, nextJobId, opLog, lastError,
                   registrations, startCount, generation, previousEnd,
                   destroyed, initCalls, destroyCalled>>

\* the fetch job's run ends: fetch_and_load_features(**fl_args) on the
\* answer; the job stays scheduled for the next interval
FetchJobComplete ==
    /\ inflight # None
    /\ LET r == fetch_and_load_features(inflight, features, cache,
                                        strategy_mapping, lastFetched # None)
       IN  /\ features' = r.features
           /\ cache' = r.cache
    /\ lastFetched' = IF inflight # "fail" THEN inflight ELSE lastFetched
    /\ lastPersisted' = IF inflight # "fail" THEN inflight ELSE lastPersisted
    /\ lastRun' = [kind |-> "periodic", ok |-> inflight # "fail"]
    /\ inflight' = None
    /\ lastCall' = NoCall
    /\ UNCHANGED <<sideBySide, strategyAlone, pc, config, strategy_mapping, is_initialized, scheduler, jobs,
                   fl_job, metric_job, nextJobId, opLog, lastError,
                   registrations, startCount, generation, previousEnd,
                   destroyed, initCalls, destroyCalled>>

\* the metrics job runs: the batch is sent and the last-sent time advances
MetricsJobRun ==
    /\ scheduler = "running"
    /\ \E j \in jobs : j.kind = "metrics"
    /\ cache' = [cache EXCEPT !.lastSent = [by |-> "flush", generation |-> generation]]
    /\ lastCall' = NoCall
    /\ UNCHANGED <<sideBySide, strategyAlone, pc, config, ghosts, strategy_mapping, features,
                   is_initialized, scheduler, jobs, fl_job, metric_job,
                   nextJobId, inflight, lastFetched, lastRun, opLog,
                   lastError, registrations, startCount, generation,
                   previousEnd, destroyed, initCalls, destroyCalled>>

-----------------------------------------------------------------------------
(* is_enabled, from any thread at any time *)

\* a variant that drops a feature whose evaluation has raised
IsEnabledEvicting ==
    /\ ~lastCall.called
    /\ \E feature_name \in FeatureNames, context \in Contexts,
          default_value \in BOOLEAN :
         /\ features' =
              IF /\ is_initialized
                 /\ Has(features, feature_name)
                 /\ EvaluationRaises(features, feature_name, context, default_value)
              THEN [n \in DOMAIN features \ {feature_name} |-> features[n]]
              ELSE features
         /\ lastCall' = [called |-> TRUE,
                      feature_name |-> feature_name,
                      context |-> context,
                      default_value |-> default_value,
                      initialized |-> is_initialized,
                      seen |-> features,
                      merged |-> ContextUpdate(context),
                      result |-> is_enabled(is_initialized, features, feature_name,
                                            context, default_value)]
    /\ UNCHANGED <<sideBySide, strategyAlone, pc, config, ghosts, strategy_mapping,
                   is_initialized, cache, scheduler, jobs, fl_job, metric_job,
                   nextJobId, inflight, lastFetched, lastRun, opLog, lastError,
                   registrations, startCount, generation, previousEnd,
                   destroyed, initCalls, destroyCalled>>

\* UnleashClient.is_enabled as a step: the one read of self.features and the
\* evaluation, recorded with the context it has merged.
\* lastCall holds the call that has just returned and the next step of any
\* thread clears it; a call leaves every other variable as it is, so a call
\* recorded over another one reaches no state that a single call does not
IsEnabled ==
    /\ ~lastCall.called
    /\ \E feature_name \in FeatureNames, context \in Contexts,
          default_value \in BOOLEAN :
         lastCall' = [called |-> TRUE,
                      feature_name |-> feature_name,
                      context |-> context,
                      default_value |-> default_value,
                      initialized |-> is_initialized,
                      seen |-> features,
                      merged |-> ContextUpdate(context),
                      result |-> is_enabled(is_initialized, features, feature_name,
                                            context, default_value)]
    /\ UNCHANGED <<sideBySide, strategyAlone, pc, config, ghosts, strategy_mapping, features,
                   is_initialized, cache, scheduler, jobs, fl_job, metric_job,
                   nextJobId, inflight, lastFetched, lastRun, opLog, lastError,
                   registrations, startCount, generation, previousEnd,
                   destroyed, initCalls, destroyCalled>>

-----------------------------------------------------------------------------
(* destroy *)

HasJob(id) == \E j \in jobs : j.id = id

\* self.fl_job.remove(): fl_job is None on a client that was never
\* initialized (AttributeError), and a job the scheduler no longer holds
\* cannot be removed (JobLookupError)
DestroyRemoveFetchJob ==
    /\ pc = "idle"
    /\ destroyCalled' = TRUE
    /\ IF fl_job = NoJob
       THEN /\ lastError' = "AttributeError"
            /\ opLog' = << >>
            /\ UNCHANGED <<jobs, pc>>
       ELSE IF ~HasJob(fl_job)
       THEN /\ lastError' = "JobLookupError"
            /\ opLog' = << >>
            /\ UNCHANGED <<jobs, pc>>
       ELSE /\ lastError' = None
            /\ opLog' = <<"fl_job.remove">>
            /\ jobs' = {j \in jobs : j.id # fl_job}
            /\ pc' = "destroy_metric_job"
    /\ lastCall' = NoCall
    /\ UNCHANGED <<sideBySide, strategyAlone, config, ghosts, strategy_mapping, features, is_initialized,
                   cache, scheduler, fl_job, metric_job, nextJobId, inflight,
                   lastFetched, lastRun, registrations, startCount,
                   generation, previousEnd, destroyed, initCalls>>

\* a variant that leaves the metrics job with the scheduler
DestroySkipMetricJob ==
    /\ pc = "destroy_metric_job"
    /\ opLog' = opLog
    /\ pc' = "destroy_shutdown"
    /\ lastCall' = NoCall
    /\ UNCHANGED <<sideBySide, strategyAlone, config, ghosts, strategy_mapping, features, is_initialized,
                   cache, scheduler, jobs, fl_job, metric_job, nextJobId, inflight,
                   lastFetched, lastRun, lastError, registrations,
                   startCount, generation, previousEnd, destroyed, initCalls,
                   destroyCalled>>

\* if self.metric_job: self.metric_job.remove()
DestroyRemoveMetricJob ==
    /\ pc = "destroy_metric_job"
    /\ IF metric_job # NoJob
       THEN /\ jobs' = {j \in jobs : j.id # metric_job}
            /\ opLog' = Append(opLog, "metric_job.remove")
       ELSE UNCHANGED <<jobs, opLog>>
    /\ pc' = "destroy_shutdown"
    /\ lastCall' = NoCall
    /\ UNCHANGED <<sideBySide, strategyAlone, config, ghosts, strategy_mapping, features, is_initialized,
                   cache, scheduler, fl_job, metric_job, nextJobId, inflight,
                   lastFetched, lastRun, lastError, registrations,
                   startCount, generation, previousEnd, destroyed, initCalls,
                   destroyCalled>>

\* self.scheduler.shutdown(): returns once the running jobs have ended
DestroyShutdown ==
    /\ pc = "destroy_shutdown"
    /\ inflight = None
    /\ scheduler' = "stopped"
    /\ opLog' = Append(opLog, "scheduler.shutdown")
    /\ pc' = "destroy_cache"
    /\ lastCall' = NoCall
    /\ UNCHANGED <<sideBySide, strategyAlone, config, ghosts, strategy_mapping, features, is_initialized,
                   cache, jobs, fl_job, metric_job, nextJobId, inflight,
                   lastFetched, lastRun, lastError, registrations,
                   startCount, generation, previousEnd, destroyed, initCalls,
                   destroyCalled>>

\* a variant that closes the cache and leaves its file in place
DestroyCacheKeep ==
    /\ pc = "destroy_cache"
    /\ opLog' = Append(opLog, "cache.delete")
    /\ destroyed' = TRUE
    /\ pc' = "idle"
    /\ lastCall' = NoCall
    /\ UNCHANGED <<sideBySide, strategyAlone, config, ghosts, strategy_mapping, features, is_initialized,
                   cache, scheduler, jobs, fl_job, metric_job, nextJobId, inflight,
                   lastFetched, lastRun, lastError, registrations,
                   startCount, generation, previousEnd, initCalls, destroyCalled>>

\* a variant that marks the client uninitialized as destroy ends
DestroyCacheDeleteUninitialize ==
    /\ pc = "destroy_cache"
    /\ cache' = DeletedCache
    /\ opLog' = Append(opLog, "cache.delete")
    /\ destroyed' = TRUE
    /\ is_initialized' = FALSE
    /\ pc' = "idle"
    /\ lastCall' = NoCall
    /\ UNCHANGED <<sideBySide, strategyAlone, config, ghosts, strategy_mapping, features,
                   scheduler, jobs, fl_job, metric_job, nextJobId, inflight,
                   lastFetched, lastRun, lastError, registrations,
                   startCount, generation, previousEnd, initCalls, destroyCalled>>

\* self.cache.delete()
DestroyCacheDelete ==
    /\ pc = "destroy_cache"
    /\ cache' = DeletedCache
    /\ opLog' = Append(opLog, "cache.delete")
    /\ destroyed' = TRUE
    /\ pc' = "idle"
    /\ lastCall' = NoCall
    /\ UNCHANGED <<sideBySide, strategyAlone, config, ghosts, strategy_mapping, features, is_initialized,
                   scheduler, jobs, fl_job, metric_job, nextJobId, inflight,
                   lastFetched, lastRun, lastError, registrations,
                   startCount, generation, previousEnd, initCalls, destroyCalled>>

-----------------------------------------------------------------------------
(* is_enabled on two clients, line by line, and their fetches *)

\* the dict a call's context parameter is bound to: the one default dict of
\* the function when the caller omits the argument, else the caller's own
ContextOf(call) == IF call.omitted THEN default_context ELSE call.context

\* line 168 of a call on client c: context.update(self.unleash_static_context)
\* writes into the dict the parameter is bound to
CallMerge(c) ==
    /\ calls[c].pc # "merged"
    /\ \E feature_name \in CallNames, omitted \in BOOLEAN,
          context \in CallContexts, default_value \in BOOLEAN :
         /\ omitted => context = Empty
         /\ calls' = [calls EXCEPT ![c] =
              [pc |-> "merged", feature_name |-> feature_name,
               omitted |-> omitted,
               context |-> IF omitted THEN Empty
                           ELSE DictMerge(context, clients[c].static_context),
               default_value |-> default_value,
               evaluated |-> Empty, result |-> Return(FALSE)]]
         /\ default_context' =
              IF omitted
              THEN DictMerge(default_context, clients[c].static_context)
              ELSE default_context
    /\ UNCHANGED <<lifecycle, strategyAlone, clients>>

\* lines 170-180 of the call: the evaluation, with the dict as it is now
CallEvaluate(c) ==
    /\ calls[c].pc = "merged"
    /\ calls' = [calls EXCEPT ![c] =
         [@ EXCEPT !.pc = "returned",
                   !.evaluated = ContextOf(calls[c]),
                   !.result = EvaluateMerged(clients[c].is_initialized,
                                             clients[c].features,
                                             calls[c].feature_name,
                                             ContextOf(calls[c]),
                                             calls[c].default_value)]]
    /\ UNCHANGED <<lifecycle, strategyAlone, clients, default_context>>

\* a successful run of client c's fetch job, on c's own feature mapping
ClientFetch(c) ==
    /\ \E response \in Payloads :
         clients' = [clients EXCEPT ![c].features =
            RepositoryReplace(@, ParseFeatures(response, clients[c].strategy_mapping))]
    /\ UNCHANGED <<lifecycle, strategyAlone, calls, default_context>>

NextClients ==
    \/ \E c \in ClientIds : CallMerge(c)
    \/ \E c \in ClientIds : CallEvaluate(c)
    \/ \E c \in ClientIds : ClientFetch(c)

SpecClients == Init /\ [][NextClients]_vars

-----------------------------------------------------------------------------
(* The userWithId strategy on its own *)

\* user ids: strings without a comma, of one character at least
IdChars == {"a", "b"}

UserIdStrings ==
    UNION {[1..n -> IdChars] : n \in 1..MaxIdLen}

\* the id lists the strategy is built from
UserIdLists ==
    UNION {[1..n -> UserIdStrings] : n \in 1..MaxIds}

\* the fixture: a strategy for a list of ids, and a context with a userId
InitUserWithId ==
    /\ Constructed
    /\ userIds \in UserIdLists
    /\ userId \in UserIdStrings
    /\ userWithIdResult = NotCalled

\* strategy(context=CONTEXT) on UserWithId(parameters={"userIds": ...})
CallUserWithId ==
    /\ ~userWithIdResult.called
    /\ userWithIdResult' =
         [called |-> TRUE,
          result |-> StrategyCall(default_strategy_mapping["userWithId"],
                                  [userIds |-> Join(userIds)],
                                  [userId |-> userId])]
    /\ UNCHANGED <<lifecycle, sideBySide, userIds, userId>>

NextUserWithId == CallUserWithId

SpecUserWithId == InitUserWithId /\ [][NextUserWithId]_vars

-----------------------------------------------------------------------------

Next ==
    \/ NewClient
    \/ InitRegister
    \/ InitFetch
    \/ InitStartScheduler
    \/ InitAddFetchJob
    \/ InitFinish
    \/ FetchJobFire
    \/ FetchJobComplete
    \/ MetricsJobRun
    \/ IsEnabled
    \/ DestroyRemoveFetchJob
    \/ DestroyRemoveMetricJob
    \/ DestroyShutdown
    \/ DestroyCacheDelete

Spec == Init /\ [][Next]_vars

-----------------------------------------------------------------------------
(* Properties *)

\* what a call on an initialized client with this feature set answers
Evaluated(featureSet, call) ==
    is_enabled(TRUE, featureSet, call.feature_name, call.context,
               call.default_value)

\* C1: an is_enabled call on a client whose is_initialized is false returns
\* default_value for every feature name, context and default_value,
\* whatever the features mapping holds at the time.
C1_UninitializedReturnsDefault ==
    (lastCall.called /\ ~lastCall.initialized)
        => lastCall.result = Return(lastCall.default_value)

\* a call before initialization has completed, on a repository that the
\* first fetch has already filled, for a feature that an initialized client
\* would answer differently
C1_Witness ==
    /\ lastCall.called
    /\ ~lastCall.initialized
    /\ Has(lastCall.seen, lastCall.feature_name)
    /\ Evaluated(lastCall.seen, lastCall) # Return(lastCall.default_value)
    /\ lastCall.result = Return(lastCall.default_value)

C3_ExceptionsCaught ==
    lastCall.called =>
        /\ ~lastCall.result.raised
        /\ (lastCall.initialized
              /\ EvaluationRaises(lastCall.seen, lastCall.feature_name,
                                  lastCall.context, lastCall.default_value))
             => lastCall.result = Return(lastCall.default_value)

\* a call for a feature the set holds whose strategy raises, answered with
\* the default True
C3_Witness ==
    /\ lastCall.called
    /\ lastCall.initialized
    /\ Has(lastCall.seen, lastCall.feature_name)
    /\ EvaluationRaises(lastCall.seen, lastCall.feature_name, lastCall.context,
                        lastCall.default_value)
    /\ lastCall.default_value
    /\ lastCall.result = Return(TRUE)

\* C4: on an initialized client, is_enabled for a name that is no key of
\* the current feature set returns default_value.
C4_UnknownFeatureReturnsDefault ==
    (lastCall.called /\ lastCall.initialized
       /\ ~Has(lastCall.seen, lastCall.feature_name))
        => lastCall.result = Return(lastCall.default_value)

\* a call with default True for a name that a loaded, non-empty set lacks
C4_Witness ==
    /\ lastCall.called
    /\ lastCall.initialized
    /\ lastFetched # None
    /\ ~Has(lastCall.seen, lastCall.feature_name)
    /\ lastCall.default_value
    /\ lastCall.result = Return(TRUE)

\* the strategy object a GradualRolloutSessionId strategy of 50 percent in
\* group g1 is loaded as
Rollout50Loaded == [class |-> "GradualRolloutSessionId",
                    parameters |-> Rollout50.parameters]

\* C5: the gradualRolloutSessionId strategy evaluates true if and only if
\* normalizedHash(context.sessionId, groupId) < percentage: with percentage
\* 50 a session whose hash is 30 is enabled and one whose hash is 70 is not.
C5_RolloutBelowPercentage ==
    (/\ lastCall.called
     /\ lastCall.initialized
     /\ Has(lastCall.seen, lastCall.feature_name)
     /\ lastCall.seen[lastCall.feature_name].enabled
     /\ lastCall.seen[lastCall.feature_name].strategies = <<Rollout50Loaded>>
     /\ Has(lastCall.context, "sessionId"))
        => lastCall.result =
             Return(normalized_hash(lastCall.context["sessionId"], "g1") < 50)

\* C6: a custom strategy registered under the name of a built-in strategy
\* is what the strategy mapping resolves that name to; every other name
\* resolves to its single registered strategy.
C6_CustomStrategyWins ==
    /\ \A name \in DOMAIN custom_strategies :
         strategy_mapping[name] = custom_strategies[name]
    /\ \A name \in DOMAIN default_strategy_mapping \ DOMAIN custom_strategies :
         strategy_mapping[name] = default_strategy_mapping[name]

\* C7: a second initialize_client call on an initialized client completes
\* without error and leaves exactly one feature-refresh job, at most one
\* metrics job, and the scheduler started once.
C7_InitializeIdempotent ==
    (initCalls >= 2 /\ pc = "idle" /\ ~destroyCalled)
        => /\ lastError = None
           /\ Cardinality({j \in jobs : j.kind = "fetch"}) = 1
           /\ Cardinality({j \in jobs : j.kind = "metrics"}) <= 1
           /\ startCount = 1
           /\ is_initialized

\* C8: when a periodic fetch fails after an earlier fetch succeeded, the
\* repository still holds the set of the last successful fetch, is_enabled
\* answers as it does on that set, and the fetch job stays scheduled on the
\* running scheduler for its next run.
C8_FailedFetchIsNoOp ==
    (lastRun.kind = "periodic" /\ ~lastRun.ok /\ lastFetched # None)
        => /\ features = ParseFeatures(lastFetched, strategy_mapping)
           /\ cache.deleted \/ cache.features = lastFetched
           /\ lastCall.called =>
                lastCall.result =
                  is_enabled(lastCall.initialized,
                             ParseFeatures(lastFetched, strategy_mapping),
                             lastCall.feature_name, lastCall.context,
                             lastCall.default_value)
           /\ ~destroyCalled =>
                /\ scheduler = "running"
                /\ HasJob(fl_job)
                /\ inflight = None => ENABLED FetchJobFire

\* a call answered from the set of the last successful fetch right after a
\* periodic fetch has failed
C8_Witness ==
    /\ lastRun.kind = "periodic"
    /\ ~lastRun.ok
    /\ lastFetched # None
    /\ ~destroyCalled
    /\ lastCall.called
    /\ lastCall.initialized
    /\ Has(features, lastCall.feature_name)
    /\ lastCall.result # Return(lastCall.default_value)

\* the calls destroy makes, in their order
DestroyOrder ==
    IF metric_job # NoJob
    THEN <<"fl_job.remove", "metric_job.remove", "scheduler.shutdown", "cache.delete">>
    ELSE <<"fl_job.remove", "scheduler.shutdown", "cache.delete">>

\* C9: destroy on an initialized client removes the feature-refresh job
\* and the metrics job if there is one, then stops the scheduler, then
\* gives up the cache, in that order; once it has ended, no job is
\* scheduled or running and none can run again.
C9_DestroyOrder ==
    /\ pc = "destroy_shutdown" =>
         /\ jobs = {}
         /\ scheduler = "running"
         /\ ~cache.deleted
    /\ pc = "destroy_cache" =>
         /\ jobs = {}
         /\ scheduler = "stopped"
         /\ inflight = None
         /\ ~cache.deleted
    /\ destroyed =>
         /\ lastError = None => opLog = DestroyOrder
         /\ jobs = {}
         /\ scheduler = "stopped"
         /\ inflight = None
         /\ cache.deleted
         /\ ~ENABLED FetchJobFire
         /\ ~ENABLED FetchJobComplete
         /\ ~ENABLED MetricsJobRun

\* destroy has ended on a client that had loaded a set and had a metrics job
C9_Witness ==
    /\ destroyed
    /\ lastError = None
    /\ metric_job # NoJob
    /\ lastFetched # None
    /\ Len(opLog) = Len(DestroyOrder)

\* C10 as stated: after destroy and the construction of a new client with
\* the same instance id, the new client's repository, once its first run
\* has ended and before its first successful fetch, holds the last feature
\* set persisted.
C10_SurvivesDestroy ==
    (/\ generation > 0
     /\ previousEnd = "destroy"
     /\ lastPersisted # None
     /\ lastFetched = None
     /\ lastRun.kind # None)
        => features = ParseFeatures(lastPersisted, strategy_mapping)

\* C10 as amended: destroy deletes the cache, so a client constructed after
\* destroy has an empty repository and no persisted set until its first
\* successful fetch; a persisted set that the cache still holds, the earlier
\* client having ended without destroy, is the last one persisted and is
\* what the repository holds once the first run has failed.
C10_SurvivesExitOnly ==
    /\ (generation > 0 /\ previousEnd = "destroy" /\ lastFetched = None)
         => /\ features = Empty
            /\ cache.features = None
    /\ (/\ generation > 0
        /\ previousEnd = "exit"
        /\ lastFetched = None
        /\ lastRun.kind # None
        /\ cache.features # None)
         => /\ cache.features = lastPersisted
            /\ features = ParseFeatures(lastPersisted, strategy_mapping)

\* the first run of a client constructed after destroy has failed, and the
\* set persisted before destroy is not in its repository
C10_Witness ==
    /\ generation > 0
    /\ previousEnd = "destroy"
    /\ lastPersisted # None
    /\ lastFetched = None
    /\ lastRun.kind = "initial"
    /\ features = Empty

\* the first run of a client constructed after an exit without destroy has
\* failed, and the set persisted before is in its repository
C10_SeededAfterExit ==
    /\ generation > 0
    /\ previousEnd = "exit"
    /\ lastFetched = None
    /\ lastRun.kind = "initial"
    /\ cache.features # None
    /\ features = ParseFeatures(lastPersisted, strategy_mapping)

C13_IsEnabledFrame ==
    [][lastCall'.called =>
         /\ features' = features
         /\ strategy_mapping' = strategy_mapping
         /\ is_initialized' = is_initialized
         /\ cache' = cache]_vars

\* a call that has recovered from an evaluation error of a feature the set
\* holds, with the set as the call saw it
C13_Witness ==
    /\ lastCall.called
    /\ lastCall.initialized
    /\ Has(lastCall.seen, lastCall.feature_name)
    /\ EvaluationRaises(lastCall.seen, lastCall.feature_name, lastCall.context,
                        lastCall.default_value)
    /\ features = lastCall.seen
    /\ is_initialized

\* C12: every is_enabled call on one of two clients of a process, under
\* every interleaving and also when the caller omits the context, evaluates
\* with the appName and environment of its own client.
C12_OwnStaticContext ==
    \A c \in ClientIds :
        calls[c].pc = "returned" =>
            /\ calls[c].evaluated["appName"]
                 = clients[c].static_context["appName"]
            /\ calls[c].evaluated["environment"]
                 = clients[c].static_context["environment"]

\* C14: the userWithId strategy answers true whenever the userId of the
\* context is one of the ids joined by commas into its userIds parameter,
\* for every id of the list and every length of the list.
C14_UserWithIdMember ==
    (userWithIdResult.called /\ \E i \in DOMAIN userIds : userIds[i] = userId)
        => userWithIdResult.result = Return(TRUE)

\* the strategy called with the last id of a list of several different ids
C14_Witness ==
    /\ userWithIdResult.called
    /\ Len(userIds) > 1
    /\ userIds[Len(userIds)] = userId
    /\ \A i \in 1..(Len(userIds) - 1) : userIds[i] # userId
    /\ userWithIdResult.result = Return(TRUE)

\* the steps of one initialize_client call, in the order of its code
InitOrder ==
    (IF disable_registration THEN << >> ELSE <<"register_client">>)
    \o <<"fetch_and_load_features", "scheduler.start", "add_job fetch">>
    \o (IF disable_metrics THEN << >> ELSE <<"add_job metrics">>)
    \o <<"is_initialized">>

IsPrefix(s, t) == Len(s) <= Len(t) /\ SubSeq(t, 1, Len(s)) = s

\* initialize_client is under way
InInitialize ==
    pc \in {"init_fetch", "init_start", "init_add_fl_job", "init_add_metric_job"}

\* C15 as stated: in every reachable state where is_initialized is true the
\* first fetch has been attempted and the feature-refresh job is scheduled.
C15_InitializedImpliesScheduled ==
    is_initialized => (lastRun.kind # None /\ HasJob(fl_job))

\* C15, amended: initialize_client performs registration, first fetch,
\* scheduler start, job scheduling and the setting of is_initialized in
\* this order; where is_initialized is true and destroy has not been
\* called, the first fetch has been attempted and the feature-refresh job
\* is scheduled on a running scheduler.
C15_InitOrder ==
    /\ InInitialize => IsPrefix(opLog, InitOrder)
    /\ (InInitialize /\ initCalls = 1) => ~is_initialized
    /\ (pc = "idle" /\ initCalls = 1 /\ ~destroyCalled) =>
          (opLog = InitOrder /\ is_initialized)
    /\ (is_initialized /\ ~destroyCalled) =>
          /\ lastRun.kind # None
          /\ HasJob(fl_job)
          /\ scheduler = "running"

\* a client that has registered, fetched, scheduled both jobs and is
\* initialized
C15_Witness ==
    /\ is_initialized
    /\ ~destroyCalled
    /\ pc = "idle"
    /\ ~disable_registration
    /\ ~disable_metrics
    /\ opLog = InitOrder
    /\ HasJob(fl_job)

\* C16: construction sets the cache's last-metrics-sent time to the
\* construction time and overwrites what an earlier run has persisted: the
\* time in the cache is always one of the current run, and until the
\* scheduler of this run has started it is the construction time.
C16_LastSentReset ==
    ~cache.deleted =>
        /\ cache.lastSent.generation = generation
        /\ startCount = 0 =>
              cache.lastSent = [by |-> "construction", generation |-> generation]

\* a client constructed on the cache file an earlier run has left behind
C16_Witness ==
    /\ generation > 0
    /\ previousEnd = "exit"
    /\ ~cache.deleted
    /\ cache.features # None
    /\ cache.lastSent = [by |-> "construction", generation |-> generation]

\* C17: destroy can be called in every lifecycle state without raising: on
\* a client never initialized, on an initialized client with metrics
\* disabled, and a second time after a first destroy.
C17_DestroyNeverRaises ==
    lastError \notin {"AttributeError", "JobLookupError"}

\* C18: after initialize_client the metrics job is scheduled if and only
\* if disable_metrics is false, the registration call has been made if and
\* only if disable_registration is false, and the feature-refresh job is
\* scheduled in both cases.
C18_JobsFollowConfiguration ==
    (pc = "idle" /\ initCalls >= 1 /\ ~destroyCalled) =>
        /\ HasJob(fl_job)
        /\ \E j \in jobs : j.kind = "fetch"
        /\ HasJob(metric_job) <=> ~disable_metrics
        /\ (\E j \in jobs : j.kind = "metrics") <=> ~disable_metrics
        /\ registrations = IF disable_registration THEN 0 ELSE initCalls

\* an initialized client with metrics disabled and registration enabled
C18_Witness ==
    /\ pc = "idle"
    /\ initCalls = 1
    /\ ~destroyCalled
    /\ is_initialized
    /\ disable_metrics
    /\ ~disable_registration
    /\ registrations = 1
    /\ HasJob(fl_job)
    /\ ~HasJob(metric_job)

\* C19: is_initialized is false from construction until initialize_client
\* completes, and once true stays true through every later operation on
\* the client, destroy and failed periodic fetches included; an is_enabled
\* call after destroy evaluates against the last loaded feature set.
C19_InitializedMonotonic ==
    [][/\ generation' # generation => ~is_initialized'
       /\ (is_initialized /\ generation' = generation) => is_initialized'
       /\ (~is_initialized /\ is_initialized') =>
             (pc = "init_add_metric_job" /\ pc' = "idle")
       /\ initCalls' = 0 => ~is_initialized'
       /\ (lastCall'.called /\ destroyCalled' /\ is_initialized') =>
             /\ lastCall'.initialized
             /\ lastFetched' # None =>
                   features' = ParseFeatures(lastFetched', strategy_mapping')
             /\ lastCall'.result =
                   is_enabled(TRUE, features', lastCall'.feature_name,
                              lastCall'.context, lastCall'.default_value)]_vars

\* a call after destroy, on a client whose last periodic fetch had failed,
\* answered from the feature set loaded before
C19_Witness ==
    /\ destroyed
    /\ is_initialized
    /\ lastRun.kind = "periodic"
    /\ ~lastRun.ok
    /\ lastCall.called
    /\ lastCall.initialized
    /\ Has(features, lastCall.feature_name)
    /\ lastCall.result # Return(lastCall.default_value)

====
